---- MODULE Spec2Model ----
(***************************************************************************)
(* Model of dvdread-rs, src/dvd_reader.rs: the DvdReader wrapper around    *)
(* the libdvdread entry points (DVDFileStat, DVDOpenFile, DVDDiscID,       *)
(* DVDUDFVolumeInfo, DVDISOVolumeInfo, DVDUDFCacheLevel, UDFFindFile,      *)
(* DVDClose).  The wrapper's own code is translated from the source; the   *)
(* foreign functions it forwards to are modelled from the specification    *)
(* and from the documentation the source carries for them.                 *)
(***************************************************************************)
EXTENDS Integers, Sequences, FiniteSets, TLC

(***************************************************************************)
(* Bounds                                                                  *)
(***************************************************************************)
MaxTitle == 1
MaxFileBlocks == 2
MaxHandles == 1
MaxReleases == 2
MaxWalks == 3

(***************************************************************************)
(* Program constants                                                       *)
(***************************************************************************)
MAX_PARTS == 9
VOLID_BUF == 32
VOLSETID_BUF == 16
DISCID_BUF == 1
DISCID_LEN == 16
VOLSETID_LEN == 128
BLOCK_SIZE == 2048

Titles == 0..MaxTitle
DvdDomain == {"InfoFile", "BackupFile", "MenuVobs", "TitleVobs"}

Min(a, b) == IF a < b THEN a ELSE b
Max(a, b) == IF a > b THEN a ELSE b

VARIABLES vol, md5, pvd, status, releases, handles, level, cache, walks, hist, last
vars == <<vol, md5, pvd, status, releases, handles, level, cache, walks, hist, last>>

(***************************************************************************)
(* The volume: the files of the DVD-Video tree, sizes in blocks, 0 when    *)
(* the file is absent.  vob[t][k+1] is VTS_tt_k.VOB (k = 0 is the menu     *)
(* VOB, k = 1..9 are the title parts); title 0 is the VIDEO_TS.* set.      *)
(***************************************************************************)
NoParts == [k \in 1..MAX_PARTS |-> 0]
PartsFrom(f) == [k \in 1..MAX_PARTS |-> IF k \in DOMAIN f THEN f[k] ELSE 0]

NoTitle == [ifo |-> 0, bup |-> 0, menu |-> 0, parts |-> NoParts]

VmgLayouts ==
    { NoTitle,
      [ifo |-> 1, bup |-> 1, menu |-> MaxFileBlocks, parts |-> NoParts],
      [ifo |-> 0, bup |-> 1, menu |-> 0, parts |-> NoParts] }

VtsLayouts ==
    { NoTitle,
      [ifo |-> 1, bup |-> 1, menu |-> 1, parts |-> PartsFrom(<<MaxFileBlocks>>)],
      [ifo |-> MaxFileBlocks, bup |-> 0, menu |-> 0,
       parts |-> PartsFrom(<<1, MaxFileBlocks>>)],
      [ifo |-> 1, bup |-> 1, menu |-> 1,
       parts |-> PartsFrom(<<1, 0, MaxFileBlocks>>)],
      [ifo |-> 1, bup |-> 1, menu |-> 1,
       parts |-> [k \in 1..MAX_PARTS |-> 1]],
      [ifo |-> 1, bup |-> 1, menu |-> 0, parts |-> PartsFrom(<<0, 1>>)] }

Volumes ==
    { [t \in Titles |-> IF t = 0 THEN g ELSE IF t = vt THEN l ELSE NoTitle] :
        g \in VmgLayouts, vt \in 1..MaxTitle, l \in VtsLayouts }

DigestOf(a, b) == [i \in 1..DISCID_LEN |-> (a + (i - 1) * b) % 256]
Digests == { DigestOf(171, 7), DigestOf(5, 9) }

Pvds == { [udf |-> TRUE, volid_len |-> 31, seed |-> 250],
          [udf |-> FALSE, volid_len |-> 32, seed |-> 1] }


(***************************************************************************)
(* Helpers over dvd_stat_t                                                 *)
(***************************************************************************)
RECURSIVE SumTo(_, _)
SumTo(f, n) == IF n = 0 THEN 0 ELSE f[n] + SumTo(f, n - 1)

RECURSIVE CountParts(_, _)
CountParts(parts, k) ==
    IF k > MAX_PARTS \/ parts[k] = 0 THEN k - 1 ELSE CountParts(parts, k + 1)

\* let mut stat = dvd_stat_t { size: 0, nr_parts: 0, parts_size: [0; 9] }
ZeroStat == [size |-> 0, nr_parts |-> 0, parts_size |-> [k \in 1..MAX_PARTS |-> 0]]

DomainAsC_menu_as_title(domain) ==
    CASE domain = "InfoFile"   -> "DVD_READ_INFO_FILE"
      [] domain = "BackupFile" -> "DVD_READ_INFO_BACKUP_FILE"
      [] domain = "MenuVobs"   -> "DVD_READ_TITLE_VOBS"
      [] domain = "TitleVobs"  -> "DVD_READ_TITLE_VOBS"

\* domain as dvd_read_domain_t
DomainAsC(domain) ==
    CASE domain = "InfoFile"   -> "DVD_READ_INFO_FILE"
      [] domain = "BackupFile" -> "DVD_READ_INFO_BACKUP_FILE"
      [] domain = "MenuVobs"   -> "DVD_READ_MENU_VOBS"
      [] domain = "TitleVobs"  -> "DVD_READ_TITLE_VOBS"

(***************************************************************************)
(* libdvdread entry points the wrapper forwards to                         *)
(***************************************************************************)
\* Sizes in blocks of the parts the file for (titlenum, domain) is made of;
\* the empty sequence when it does not resolve.
FileParts(v, titlenum, cdomain) ==
    LET f == v[titlenum]
        one(sz) == IF sz > 0 THEN <<sz>> ELSE <<>>
    IN  CASE cdomain = "DVD_READ_INFO_FILE"        -> one(f.ifo)
          [] cdomain = "DVD_READ_INFO_BACKUP_FILE" -> one(f.bup)
          [] cdomain = "DVD_READ_MENU_VOBS"        -> one(f.menu)
          [] cdomain = "DVD_READ_TITLE_VOBS"       ->
                IF titlenum = 0 THEN <<>>
                ELSE [k \in 1..CountParts(f.parts, 1) |-> f.parts[k]]

TotalBlocks(parts) == SumTo(parts, Len(parts))

DVDFileStat(v, titlenum, cdomain) ==
    LET ps == FileParts(v, titlenum, cdomain)
        bytes == [k \in 1..MAX_PARTS |->
                     IF k <= Len(ps) THEN ps[k] * BLOCK_SIZE ELSE 0]
    IN  IF Len(ps) = 0
        THEN [result |-> -1, stat |-> ZeroStat]
        ELSE [result |-> 0,
              stat |-> [size |-> TotalBlocks(ps) * BLOCK_SIZE,
                        nr_parts |-> Len(ps),
                        parts_size |-> bytes]]

DVDOpenFile(v, titlenum, cdomain) ==
    IF Len(FileParts(v, titlenum, cdomain)) = 0
    THEN "NULL"
    ELSE "FILE"

(***************************************************************************)
(* A call made through a reader that close() has already released: the     *)
(* foreign call works on freed memory, so the outcome is not defined.       *)
(***************************************************************************)
UseAfterClose(op) ==
    /\ status = "closed"
    /\ \E o \in {"Crash", "Undefined"} :
          /\ last' = [op |-> op, kind |-> o, pre |-> "closed"]
          /\ status' = IF o = "Crash" THEN "crashed" ELSE status
    /\ UNCHANGED <<vol, md5, pvd, releases, handles, level, cache, walks, hist>>

(***************************************************************************)
(* DvdReader::file_stat                                                    *)
(***************************************************************************)
FileStatResult_always_ok(result) == "Ok"

\* if result == 0 { Ok(stat) } else { Err(..) }
FileStatResult(result) == IF result = 0 THEN "Ok" ELSE "Err"

file_stat(title_num, domain) ==
    \/ /\ status = "open"
       /\ LET r == DVDFileStat(vol, title_num, DomainAsC(domain))
          IN  last' = [op |-> "file_stat",
                       kind |-> FileStatResult(r.result),
                       pre |-> status, title |-> title_num, domain |-> domain,
                       stat |-> r.stat]
       /\ UNCHANGED <<vol, md5, pvd, status, releases, handles, level, cache, walks, hist>>
    \/ UseAfterClose("file_stat")

(***************************************************************************)
(* DvdReader::open_file: the pointer DVDOpenFile returns is dereferenced   *)
(* without a null check.                                                   *)
(***************************************************************************)
open_file(title_number, domain) ==
    \/ /\ status = "open"
       /\ LET p == DVDOpenFile(vol, title_number, DomainAsC(domain))
              h == [title |-> title_number, domain |-> domain]
          IN  IF p = "NULL"
              THEN \E o \in {"Crash", "Ok"} :
                     /\ last' = [op |-> "open_file", kind |-> o, pre |-> status,
                                 title |-> title_number, domain |-> domain,
                                 file |-> "garbage"]
                     /\ status' = IF o = "Crash" THEN "crashed" ELSE status
                     /\ UNCHANGED handles
              ELSE /\ Cardinality(handles \cup {h}) <= MaxHandles
                   /\ last' = [op |-> "open_file", kind |-> "Ok", pre |-> status,
                               title |-> title_number, domain |-> domain,
                               file |-> "file"]
                   /\ handles' = handles \cup {h}
                   /\ UNCHANGED status
       /\ UNCHANGED <<vol, md5, pvd, releases, level, cache, walks, hist>>
    \/ UseAfterClose("open_file")


(***************************************************************************)
(* MultiPartFile: block-indexed read over the parts of an open file.       *)
(* A block is identified by the part it lies in and its index there.       *)
(***************************************************************************)
PartBlocks(k, lo, hi) == [i \in 1..(hi - lo) |-> <<k, lo + i - 1>>]

\* The next part taken to start one block early
RECURSIVE ReadParts_overlap(_, _, _, _, _)
ReadParts_overlap(parts, k, base, off, cnt) ==
    IF k > Len(parts) THEN <<>>
    ELSE LET lo == Max(off, base)
             hi == Min(off + cnt, base + parts[k])
             here == IF lo < hi THEN PartBlocks(k, lo - base, hi - base) ELSE <<>>
         IN  here \o ReadParts_overlap(parts, k + 1, base + parts[k] - 1, off, cnt)

\* One read per overlapping part, parts taken in order; base is the logical
\* block offset at which part k starts.
RECURSIVE ReadParts(_, _, _, _, _)
ReadParts(parts, k, base, off, cnt) ==
    IF k > Len(parts) THEN <<>>
    ELSE LET lo == Max(off, base)
             hi == Min(off + cnt, base + parts[k])
             here == IF lo < hi THEN PartBlocks(k, lo - base, hi - base) ELSE <<>>
         IN  here \o ReadParts(parts, k + 1, base + parts[k], off, cnt)

ReadBlocks(parts, off, cnt) ==
    IF off + cnt > TotalBlocks(parts)
    THEN [kind |-> "Err", data |-> <<>>]
    ELSE [kind |-> "Ok", data |-> ReadParts(parts, 1, 0, off, cnt)]

read(h, block_offset, block_count) ==
    \/ /\ status = "open"
       /\ h \in handles
       /\ LET parts == FileParts(vol, h.title, DomainAsC(h.domain))
              r == ReadBlocks(parts, block_offset, block_count)
          IN  last' = [op |-> "read", kind |-> r.kind, pre |-> status,
                       title |-> h.title, domain |-> h.domain,
                       off |-> block_offset, cnt |-> block_count,
                       data |-> r.data]
       /\ UNCHANGED <<vol, md5, pvd, status, releases, handles, level, cache, walks, hist>>
    \/ /\ h \in handles
       /\ UseAfterClose("read")

(***************************************************************************)
(* DvdReader::disc_id                                                      *)
(***************************************************************************)
\* DVDDiscID: fails without writing when VIDEO_TS.IFO is missing, otherwise
\* stores the 16 bytes of the digest at discid[0..15].
DVDDiscID(v, digest) ==
    IF v[0].ifo = 0
    THEN [result |-> -1, written |-> <<>>]
    ELSE [result |-> 0, written |-> digest]

DecChars == <<"0", "1", "2", "3", "4", "5", "6", "7", "8", "9">>

\* u8::to_string: the decimal rendering of one byte
RECURSIVE U8ToString(_)
U8ToString(n) ==
    IF n < 10 THEN <<DecChars[n + 1]>>
    ELSE Append(U8ToString(n \div 10), DecChars[(n % 10) + 1])

DiscIdResult_always_ok(result) == "Ok"

\* if result == 0 { Ok(c_string_ptr.to_string()) } else { Err(..) }
DiscIdResult(result) == IF result = 0 THEN "Ok" ELSE "Err"

disc_id ==
    \/ /\ status = "open"
       /\ LET r == DVDDiscID(vol, md5)
              \* let mut c_string_ptr: c_uchar = 0; one byte of storage
              c_string_ptr == IF Len(r.written) >= 1 THEN r.written[1] ELSE 0
          IN  IF Len(r.written) > DISCID_BUF
              THEN \* 16 bytes stored through a pointer to a 1-byte local
                   \E o \in {"Crash", "Continue"} :
                     /\ last' = [op |-> "disc_id",
                                 kind |-> IF o = "Crash" THEN "Crash"
                                          ELSE DiscIdResult(r.result),
                                 pre |-> status, written |-> Len(r.written),
                                 value |-> U8ToString(c_string_ptr)]
                     /\ status' = IF o = "Crash" THEN "crashed" ELSE status
              ELSE /\ last' = [op |-> "disc_id", kind |-> DiscIdResult(r.result),
                               pre |-> status, written |-> Len(r.written),
                               value |-> U8ToString(c_string_ptr)]
                   /\ UNCHANGED status
       /\ UNCHANGED <<vol, md5, pvd, releases, handles, level, cache, walks, hist>>
    \/ UseAfterClose("disc_id")


(***************************************************************************)
(* DvdReader::udf_volume_info / iso_volume_info                            *)
(***************************************************************************)
\* Byte i (0-based) of the 128-byte VolumeSetIdentifier of the descriptor
VolSetIdByte(p, i) == (p.seed + i) % 256

\* Bytes the library stores into volid (identifier, cut to the size given,
\* always null terminated) and into volsetid (at most volsetid_size of
\* the 128 stored bytes); idmax is the longest identifier of the format.
VolumeInfoWrites(p, idmax, volid_size, volsetid_size) ==
    [volid    |-> IF volid_size = 0 THEN 0
                  ELSE Min(volid_size, Min(p.volid_len, idmax) + 1),
     volsetid |-> Min(volsetid_size, VOLSETID_LEN)]

DVDUDFVolumeInfo(p, volid_size, volsetid_size) ==
    IF ~p.udf
    THEN [result |-> -1, volid |-> 0, volsetid |-> 0]
    ELSE [result |-> 0] @@ VolumeInfoWrites(p, 31, volid_size, volsetid_size)

DVDISOVolumeInfo(p, volid_size, volsetid_size) ==
    [result |-> 0] @@ VolumeInfoWrites(p, 32, volid_size, volsetid_size)

\* A u128 as its 16 base-256 digits, most significant first.
U128Zero == [i \in 1..16 |-> 0]

\* x << 8: the bits shifted out at the top are dropped
Shl8(x) == [i \in 1..16 |-> IF i < 16 THEN x[i + 1] ELSE 0]

\* x + (b as u128), with the carry out of the top digit reported
RECURSIVE AddAt(_, _, _)
AddAt(x, i, c) ==
    IF c = 0 THEN [val |-> x, overflow |-> FALSE]
    ELSE IF i = 0 THEN [val |-> x, overflow |-> TRUE]
    ELSE AddAt([x EXCEPT ![i] = (x[i] + c) % 256], i - 1, (x[i] + c) \div 256)

\* for i in 0..16 { out = out + volsetid[i]; if i < 15 { out = out << 8 } }
RECURSIVE VolSetIdOut(_, _, _)
VolSetIdOut(volsetid, i, acc) ==
    IF i = 16 THEN acc
    ELSE LET a == AddAt(acc.val, 16, volsetid[i + 1])
             v == IF i < 15 THEN Shl8(a.val) ELSE a.val
         IN  VolSetIdOut(volsetid, i + 1,
                         [val |-> v, overflow |-> acc.overflow \/ a.overflow])

\* if result == 0 { Ok((volid, volsetidout)) } else { Err(..) }
VolumeInfoResult(result) == IF result = 0 THEN "Ok" ELSE "Err"

\* The part of the wrapper the two functions share, r the library's answer:
\* let mut volid = [0u8; 32]; let mut volsetid = [0u8; 16];
volume_info(op, r, volid_size, volsetid_size) ==
    LET volsetid == [i \in 1..VOLSETID_BUF |->
                        IF i <= r.volsetid THEN VolSetIdByte(pvd, i - 1) ELSE 0]
        out == VolSetIdOut(volsetid, 0, [val |-> U128Zero, overflow |-> FALSE])
        res(kind) == [op |-> op, kind |-> kind, pre |-> status,
                      volid_size |-> volid_size, volsetid_size |-> volsetid_size,
                      volid_written |-> r.volid, volsetid_written |-> r.volsetid,
                      value |-> out.val, overflow |-> out.overflow]
    IN  IF r.volid > VOLID_BUF \/ r.volsetid > VOLSETID_BUF
        THEN \* the library stored past the end of a local array
             \E o \in {"Crash", "Continue"} :
               /\ last' = res(IF o = "Crash" THEN "Crash"
                              ELSE VolumeInfoResult(r.result))
               /\ status' = IF o = "Crash" THEN "crashed" ELSE status
        ELSE /\ last' = res(VolumeInfoResult(r.result))
             /\ UNCHANGED status

udf_volume_info(volid_size, volsetid_size) ==
    \/ /\ status = "open"
       /\ volume_info("udf_volume_info",
                      DVDUDFVolumeInfo(pvd, volid_size, volsetid_size),
                      volid_size, volsetid_size)
       /\ UNCHANGED <<vol, md5, pvd, releases, handles, level, cache, walks, hist>>
    \/ UseAfterClose("udf_volume_info")

iso_volume_info(volid_size, volsetid_size) ==
    \/ /\ status = "open"
       /\ volume_info("iso_volume_info",
                      DVDISOVolumeInfo(pvd, volid_size, volsetid_size),
                      volid_size, volsetid_size)
       /\ UNCHANGED <<vol, md5, pvd, releases, handles, level, cache, walks, hist>>
    \/ UseAfterClose("iso_volume_info")

(***************************************************************************)
(* DvdReader::close: DVDClose is called on every call, whatever the state  *)
(* of the reader and of the files opened from it.                          *)
(***************************************************************************)
close ==
    /\ status \in {"open", "closed"}
    /\ releases < MaxReleases
    /\ IF status = "open"
       THEN /\ releases' = releases + 1
            /\ status' = "closed"
            /\ last' = [op |-> "close", kind |-> "Unit", pre |-> status,
                        open_files |-> Cardinality(handles)]
       ELSE \* DVDClose on a reader already released
            \E o \in {"Crash", "Unit"} :
              /\ releases' = IF o = "Crash" THEN releases ELSE releases + 1
              /\ status' = IF o = "Crash" THEN "crashed" ELSE status
              /\ last' = [op |-> "close", kind |-> o, pre |-> status,
                          open_files |-> Cardinality(handles)]
    /\ UNCHANGED <<vol, md5, pvd, handles, level, cache, walks, hist>>


(***************************************************************************)
(* Path resolution and its cache (UDFFindFile, DVDUDFCacheLevel)           *)
(***************************************************************************)
IfoPath(t) == [title |-> t, ext |-> "IFO", part |-> 0]
VobPath(t, k) == [title |-> t, ext |-> "VOB", part |-> k]
\* What the library reads when the bytes after the name are not a NUL
GarbagePath == [title |-> 0, ext |-> "?", part |-> 0]

FindPaths == {IfoPath(t) : t \in Titles} \cup {VobPath(t, 1) : t \in Titles \ {0}}

\* Size in blocks of the file a path names, 0 when there is none
PathBlocks(v, path) ==
    IF path.title \notin Titles THEN 0
    ELSE CASE path.ext = "IFO" -> v[path.title].ifo
           [] path.ext = "BUP" -> v[path.title].bup
           [] path.ext = "VOB" ->
                IF path.part = 0 THEN v[path.title].menu
                ELSE IF path.part \in 1..MAX_PARTS /\ path.title # 0
                     THEN v[path.title].parts[path.part]
                     ELSE 0
           [] OTHER -> 0

\* The block at which the image stores the file
StartBlock(path) ==
    512 + 64 * path.title + 4 * path.part + (IF path.ext = "BUP" THEN 2 ELSE 0)

NotFound == [lb |-> 0, size |-> 0]

\* One walk of the volume's directory structures
Walk(v, path) ==
    IF PathBlocks(v, path) = 0 THEN NotFound
    ELSE [lb |-> StartBlock(path), size |-> PathBlocks(v, path) * BLOCK_SIZE]

Resolve_no_memo(v, lvl, c, path) ==
    IF lvl >= 1 /\ path \in DOMAIN c
    THEN [loc |-> c[path], walked |-> 0, cache |-> c]
    ELSE [loc |-> Walk(v, path), walked |-> 1, cache |-> c]

\* resolve(path): answered from the cache when caching is on and the path is
\* memoized, by a walk otherwise; a walk's result is memoized when caching
\* is on.
Resolve(v, lvl, c, path) ==
    IF lvl >= 1 /\ path \in DOMAIN c
    THEN [loc |-> c[path], walked |-> 0, cache |-> c]
    ELSE LET loc == Walk(v, path)
         IN  [loc |-> loc, walked |-> 1,
              cache |-> IF lvl >= 1 /\ loc # NotFound
                        THEN c @@ (path :> loc) ELSE c]

\* level > 0 is clamped to 1, level < 0 only reads the setting
DVDUDFCacheLevel(cur, lvl) ==
    IF lvl > 0 THEN [level |-> 1, ret |-> 1]
    ELSE IF lvl < 0 THEN [level |-> cur, ret |-> cur]
    ELSE [level |-> 0, ret |-> 0]

Levels == {-2, -1, 0, 1, 2}

udf_cache_level_echo(cache_level) ==
    \/ /\ status = "open"
       /\ LET r == DVDUDFCacheLevel(level, cache_level)
          IN  /\ level' = r.level
              /\ last' = [op |-> "udf_cache_level", kind |-> "Ok", pre |-> status,
                          arg |-> cache_level, ret |-> cache_level,
                          level_before |-> level, cache_before |-> cache]
       /\ UNCHANGED <<vol, md5, pvd, status, releases, handles, cache, walks, hist>>
    \/ UseAfterClose("udf_cache_level")

udf_cache_level(cache_level) ==
    \/ /\ status = "open"
       /\ LET r == DVDUDFCacheLevel(level, cache_level)
          IN  /\ level' = r.level
              /\ last' = [op |-> "udf_cache_level", kind |-> "Ok", pre |-> status,
                          arg |-> cache_level, ret |-> r.ret,
                          level_before |-> level, cache_before |-> cache]
       /\ UNCHANGED <<vol, md5, pvd, status, releases, handles, cache, walks, hist>>
    \/ UseAfterClose("udf_cache_level")

\* match UDFFindFile(..) { 0 => Err(..), v => Ok((v, filesize)) }
FindFileResult(v) == IF v = 0 THEN "Err" ELSE "Ok"

udf_find_file(path) ==
    \/ /\ status = "open"
       /\ \E seen \in {path, GarbagePath} :
            \* path.as_ptr() is handed over without a terminating NUL
            LET r == Resolve(vol, level, cache, seen)
            IN  /\ walks + r.walked <= MaxWalks
                /\ walks' = walks + r.walked
                /\ cache' = r.cache
                /\ hist' = IF level = 1 /\ r.loc # NotFound /\ seen \notin DOMAIN hist
                           THEN hist @@ (seen :> r.loc) ELSE hist
                /\ last' = [op |-> "udf_find_file", kind |-> FindFileResult(r.loc.lb),
                            pre |-> status, path |-> path, seen |-> seen,
                            level |-> level, walks_before |-> walks,
                            known |-> seen \in DOMAIN hist,
                            prev |-> IF seen \in DOMAIN hist THEN hist[seen]
                                     ELSE NotFound,
                            loc |-> r.loc]
       /\ UNCHANGED <<vol, md5, pvd, status, releases, handles, level>>
    \/ UseAfterClose("udf_find_file")

(***************************************************************************)
(* Specifications                                                          *)
(***************************************************************************)
Init ==
    /\ vol \in Volumes
    /\ md5 \in Digests
    /\ pvd \in Pvds
    /\ status = "open"
    /\ releases = 0
    /\ handles = {}
    /\ level = 1
    /\ cache = <<>>
    /\ walks = 0
    /\ hist = <<>>
    /\ last = [op |-> "new", kind |-> "Ok", pre |-> "open"]

VolidSizes == {0, 32, 33}
VolsetidSizes == {0, 16, 17, 128}

\* Files and lifetime of the reader
Next ==
    \/ \E t \in Titles, d \in DvdDomain : file_stat(t, d)
    \/ \E t \in Titles, d \in DvdDomain : open_file(t, d)
    \/ \E h \in handles :
         \E off, cnt \in 0..(TotalBlocks(FileParts(vol, h.title, DomainAsC(h.domain))) + 1) :
            read(h, off, cnt)
    \/ disc_id
    \/ close

Spec == Init /\ [][Next]_vars

\* Identification of the volume
NextInfo ==
    \/ disc_id
    \/ \E a \in VolidSizes, b \in VolsetidSizes : udf_volume_info(a, b)
    \/ \E a \in VolidSizes, b \in VolsetidSizes : iso_volume_info(a, b)
    \/ close

SpecInfo == Init /\ [][NextInfo]_vars

\* Path resolution
NextCache ==
    \/ \E l \in Levels : udf_cache_level(l)
    \/ \E p \in FindPaths : udf_find_file(p)
    \/ close

SpecCache == Init /\ [][NextCache]_vars


(***************************************************************************)
(* Properties                                                              *)
(***************************************************************************)
StatOk == last.op = "file_stat" /\ last.pre = "open" /\ last.kind = "Ok"

\* C1: whenever file_stat succeeds for a title number and a domain, the size
\* it returns is the sum of the first nr_parts entries of parts_size, and
\* nr_parts lies between 1 and 9.
C1_SizeIsSumOfParts ==
    StatOk =>
        /\ last.stat.nr_parts \in 1..MAX_PARTS
        /\ last.stat.size = SumTo(last.stat.parts_size, last.stat.nr_parts)

\* A stat of a title whose VOB has several parts of different sizes
C1_Witness ==
    /\ StatOk
    /\ last.stat.nr_parts >= 2
    /\ last.stat.parts_size[1] # last.stat.parts_size[2]

\* C2: a successful stat in domain InfoFile, BackupFile or MenuVobs reports
\* exactly one part; only TitleVobs reports more than one.
C2_OnlyTitleVobsMultipart ==
    (StatOk /\ last.domain # "TitleVobs") => last.stat.nr_parts = 1

\* A menu VOB stat on a title whose title VOB has several parts
C2_Witness ==
    /\ StatOk
    /\ last.domain = "MenuVobs"
    /\ CountParts(vol[last.title].parts, 1) >= 2

\* The blocks of the parts, each part read whole, parts in order
RECURSIVE ConcatParts(_, _)
ConcatParts(parts, k) ==
    IF k > Len(parts) THEN <<>>
    ELSE PartBlocks(k, 0, parts[k]) \o ConcatParts(parts, k + 1)

\* Sizes of the parts of the file the last read was made on
ReadFile ==
    LET f == vol[last.title]
    IN  CASE last.domain = "InfoFile"   -> <<f.ifo>>
          [] last.domain = "BackupFile" -> <<f.bup>>
          [] last.domain = "MenuVobs"   -> <<f.menu>>
          [] last.domain = "TitleVobs"  ->
                [k \in 1..CountParts(f.parts, 1) |-> f.parts[k]]

\* C3: an in-range read of a file made of parts 1..n returns exactly
\* block_count blocks, equal to the slice of the in-order concatenation of
\* the parts that starts at block_offset: nothing is missing and nothing is
\* repeated where two parts meet.
C3_ReadIsSliceOfConcatenation ==
    (/\ last.op = "read"
     /\ last.pre = "open"
     /\ last.off + last.cnt <= Len(ConcatParts(ReadFile, 1)))
    => /\ last.kind = "Ok"
       /\ Len(last.data) = last.cnt
       /\ last.data = SubSeq(ConcatParts(ReadFile, 1), last.off + 1,
                             last.off + last.cnt)

\* A read that starts in part 1 and ends in part 2
C3_Witness ==
    /\ last.op = "read"
    /\ last.kind = "Ok"
    /\ Len(ReadFile) >= 2
    /\ last.off < ReadFile[1]
    /\ last.off + last.cnt > ReadFile[1]

Resolves(t, d) ==
    CASE d = "InfoFile"   -> vol[t].ifo > 0
      [] d = "BackupFile" -> vol[t].bup > 0
      [] d = "MenuVobs"   -> vol[t].menu > 0
      [] d = "TitleVobs"  -> t # 0 /\ vol[t].parts[1] > 0

\* C4: open_file returns an error, never a handle, when the file for the
\* title and domain does not resolve, and a handle only when it resolves.
C4_OpenFileNotFound ==
    (last.op = "open_file" /\ last.pre = "open") =>
        /\ ~Resolves(last.title, last.domain) => last.kind = "Err"
        /\ last.kind = "Ok" => Resolves(last.title, last.domain)

\* C5: disc_id on a volume without VIDEO_TS.IFO returns an error, never a
\* success value.
C5_DiscIdNeedsVideoTsIfo ==
    (last.op = "disc_id" /\ last.pre = "open" /\ vol[0].ifo = 0)
        => last.kind = "Err"

\* disc_id on a volume that lacks VIDEO_TS.IFO but has a title set IFO
C5_Witness ==
    /\ last.op = "disc_id"
    /\ last.kind = "Err"
    /\ vol[0].ifo = 0
    /\ \E t \in Titles : vol[t].ifo > 0

HexChars == <<"0", "1", "2", "3", "4", "5", "6", "7",
              "8", "9", "a", "b", "c", "d", "e", "f">>

RECURSIVE Hex(_, _)
Hex(bytes, i) ==
    IF i > Len(bytes) THEN <<>>
    ELSE <<HexChars[(bytes[i] \div 16) + 1], HexChars[(bytes[i] % 16) + 1]>>
         \o Hex(bytes, i + 1)

\* C6: a successful disc_id returns the 16 bytes of the digest as 32
\* lowercase hexadecimal digits, discid[0] first.
C6_DiscIdIsHexOfDigest ==
    (last.op = "disc_id" /\ last.pre = "open" /\ last.kind = "Ok")
        => /\ Len(last.value) = 2 * DISCID_LEN
           /\ last.value = Hex(md5, 1)

CacheLevelCalled == last.op = "udf_cache_level" /\ last.pre = "open"

\* C7: udf_cache_level always answers, with the level in force after the
\* call: -1 answers the current setting and changes neither the level nor
\* the cache, 0 turns caching off, 1 (the level after open) turns it on,
\* and any other value leaves the level in {0, 1}.
C7_CacheLevelTotal ==
    /\ level \in {0, 1}
    /\ last.op = "new" => level = 1
    /\ CacheLevelCalled =>
         /\ last.kind = "Ok"
         /\ last.ret = level
         /\ last.arg = -1 => (last.ret = last.level_before
                              /\ level = last.level_before
                              /\ cache = last.cache_before)
         /\ last.arg = 0 => level = 0
         /\ last.arg = 1 => level = 1

\* The query made while caching is off and the cache is not empty
C7_Witness ==
    /\ CacheLevelCalled
    /\ last.arg = -1
    /\ last.ret = 0
    /\ DOMAIN cache # {}

FindFileCalled == last.op = "udf_find_file" /\ last.pre = "open"

C9_ReleasedOnceThenRejected ==
    /\ releases <= 1
    /\ last.pre = "closed" => last.kind = "PreconditionViolation"
    /\ (last.op = "close" /\ last.open_files > 0)
          => last.kind = "PreconditionViolation"

VolumeInfoCalled ==
    last.op \in {"udf_volume_info", "iso_volume_info"} /\ last.pre = "open"

\* C10: udf_volume_info and iso_volume_info copy no more than volid_size
\* bytes to volid and volsetid_size bytes to volsetid, store nothing past
\* the 32 and 16 bytes of the wrapper's arrays, and on success return the
\* big-endian value of the 16 volsetid bytes without overflow.
C10_VolumeInfoWithinBuffers ==
    VolumeInfoCalled =>
        /\ last.volid_written <= last.volid_size
        /\ last.volsetid_written <= last.volsetid_size
        /\ last.volid_written <= VOLID_BUF
        /\ last.volsetid_written <= VOLSETID_BUF
        /\ last.kind = "Ok" =>
              /\ ~last.overflow
              /\ last.value = [i \in 1..16 |->
                                 IF i <= last.volsetid_written
                                 THEN VolSetIdByte(pvd, i - 1) ELSE 0]

====
